---- MODULE Spec2Model ----
(***************************************************************************)
(* Model of MCL-OKD's okddip_resnet.py (multi-branch ResNet with           *)
(* cross-branch attention fusion) and main_cifar_baseline.py (learning     *)
(* rate schedule, epoch loop, checkpoint save / resume).                   *)
(*                                                                         *)
(* Tensors are abstracted: a feature map is a record [c, hw, v] of its     *)
(* channel count, its spatial size and one value v of a finite domain      *)
(* standing for its contents; torch's primitives (convolution, batch       *)
(* norm, linear) are fixed functions over that domain, parameterised by    *)
(* the weights of the module that owns them.  Attention weights and fused  *)
(* logits are exact rationals <<numerator, denominator>>.                  *)
(***************************************************************************)
EXTENDS Integers, Sequences, FiniteSets, TLC

VARIABLES
    cfg,        \* arguments of ResNet.__init__
    net,        \* the constructed ResNet (or the error raised in construction)
    fwd,        \* result of the last forward pass
    pcN,        \* "new" | "built" | "failed" | "ran" | "probed"
    probe,      \* result of a direct call of ResNet._make_layer
    args,       \* parsed command line of main_cifar_baseline.py
    optimizer,  \* the SGD optimizer: its parameter groups and update state
    sched,      \* locals of the last adjust_lr call
    pcT,        \* position of the training script
    epoch,      \* loop variable of main's epoch loop
    start_epoch,\* global start_epoch
    best_acc,   \* global best_acc
    acc,        \* accuracy returned by the last test(epoch)
    weights,    \* net.state_dict(), as the number of epochs of updates applied
    ckptFile,   \* ./checkpoint/<arch>.pth.tar
    bestFile,   \* ./checkpoint/<arch>_best.pth.tar
    runs,       \* number of times the script has been started
    hist        \* history of the runs (observations only, never read by the code)

netVars == <<cfg, net, fwd, pcN, probe>>
schedVars == <<args, optimizer, sched>>
trainVars == <<pcT, epoch, start_epoch, best_acc, acc, weights, ckptFile, bestFile,
               runs, hist>>
vars == <<netVars, schedVars, trainVars>>

----------------------------------------------------------------------------
\* Bounds of the model
MaxNet == 4         \* number_net ranges over 2..MaxNet
MaxBlocks == 2      \* per-stage block counts range over 1..MaxBlocks
ValMod == 3         \* abstract tensor contents range over 0..ValMod-1
NumClasses == 2     \* num_classes of the modelled classifier

MaxSchedEpoch == 8  \* adjust_lr is called with epochs 0..MaxSchedEpoch
MaxMilestones == 2  \* milestone lists have at most MaxMilestones entries
MaxT0 == 3          \* sgdr_t ranges over 1..MaxT0
MaxGroups == 2      \* the optimizer has 1..MaxGroups parameter groups
MaxEpochs == 3      \* --epochs ranges over 1..MaxEpochs
MaxRuns == 2        \* the script is started at most MaxRuns times
MaxAcc == 2         \* test accuracy ranges over 0..MaxAcc correct predictions

\* Program constants
StemPlanes == 16
Layer1Planes == 16
Layer2Planes == 32
Layer3Planes == 64
DefaultBaseWidth == 64
ImageSize == 32
ImageChannels == 3

Val == 0..(ValMod - 1)
Classes == 1..NumClasses

----------------------------------------------------------------------------
\* Exact rational arithmetic on <<numerator, denominator>>, denominator > 0
Abs(x) == IF x < 0 THEN -x ELSE x

RECURSIVE Gcd(_, _)
Gcd(a, b) == IF b = 0 THEN a ELSE Gcd(b, a % b)

Reduce(r) ==
    LET g == Gcd(Abs(r[1]), r[2])
    IN  IF g = 0 THEN r ELSE <<r[1] \div g, r[2] \div g>>

RAdd(a, b) ==
    LET g == Gcd(a[2], b[2])
        l == (a[2] \div g) * b[2]
    IN  Reduce(<<a[1] * (l \div a[2]) + b[1] * (l \div b[2]), l>>)

RScale(k, a) == Reduce(<<k * a[1], a[2]>>)

RECURSIVE RSum(_)
RSum(s) == IF s = <<>> THEN <<0, 1>> ELSE RAdd(Head(s), RSum(Tail(s)))

RECURSIVE Pow2(_)
Pow2(n) == IF n <= 0 THEN 1 ELSE 2 * Pow2(n - 1)

RECURSIVE SeqMin(_)
SeqMin(s) ==
    IF Len(s) = 1 THEN s[1]
    ELSE LET m == SeqMin(Tail(s)) IN IF s[1] < m THEN s[1] ELSE m

RECURSIVE SeqSum(_)
SeqSum(s) == IF s = <<>> THEN 0 ELSE Head(s) + SeqSum(Tail(s))

----------------------------------------------------------------------------
\* Residual blocks
Expansion(block) == IF block = "BasicBlock" THEN 1 ELSE 4

NoDownsample == [present |-> FALSE, inp |-> 0, outp |-> 0, stride |-> 0]

NoBlock ==
    [kind |-> "none", inplanes |-> 0, planes |-> 0, stride |-> 0,
     downsample |-> NoDownsample, width |-> 0, dilation |-> 0, w |-> 0]

\* conv1x1(inplanes, planes * expansion, stride) followed by norm_layer
conv1x1_norm(inp, outp, stride) ==
    [present |-> TRUE, inp |-> inp, outp |-> outp, stride |-> stride]

\* mutant: the groups / base_width test joined by "and"
BasicBlock_init_and(inplanes, planes, stride, downsample, groups, base_width, dilation) ==
    IF groups # 1 /\ base_width # DefaultBaseWidth
    THEN [err |-> "ValueError", blk |-> NoBlock]
    ELSE IF dilation > 1
    THEN [err |-> "NotImplementedError", blk |-> NoBlock]
    ELSE [err |-> "none",
          blk |-> [kind |-> "BasicBlock", inplanes |-> inplanes, planes |-> planes,
                   stride |-> stride, downsample |-> downsample, width |-> planes,
                   dilation |-> dilation, w |-> 0]]

BasicBlock_init(inplanes, planes, stride, downsample, groups, base_width, dilation) ==
    IF groups # 1 \/ base_width # DefaultBaseWidth
    THEN [err |-> "ValueError", blk |-> NoBlock]
    ELSE IF dilation > 1
    THEN [err |-> "NotImplementedError", blk |-> NoBlock]
    ELSE [err |-> "none",
          blk |-> [kind |-> "BasicBlock", inplanes |-> inplanes, planes |-> planes,
                   stride |-> stride, downsample |-> downsample, width |-> planes,
                   dilation |-> dilation, w |-> 0]]

Bottleneck_init(inplanes, planes, stride, downsample, groups, base_width, dilation) ==
    [err |-> "none",
     blk |-> [kind |-> "Bottleneck", inplanes |-> inplanes, planes |-> planes,
              stride |-> stride, downsample |-> downsample,
              width |-> ((planes * base_width) \div DefaultBaseWidth) * groups,
              dilation |-> dilation, w |-> 0]]

Block_init(block, inplanes, planes, stride, downsample, groups, base_width, dilation) ==
    IF block = "BasicBlock"
    THEN BasicBlock_init(inplanes, planes, stride, downsample, groups, base_width, dilation)
    ELSE Bottleneck_init(inplanes, planes, stride, downsample, groups, base_width, dilation)

\* One constructor call as the caller issued it (kept to relate raised errors
\* to the arguments the block was given)
CtorCall(block, groups, base_width, dilation) ==
    [block |-> block, groups |-> groups, base_width |-> base_width,
     dilation |-> dilation]

----------------------------------------------------------------------------
\* ResNet._make_layer.  self is [inplanes, dilation, groups, base_width];
\* the result carries the mutated self, the blocks built, the constructor
\* calls issued and the error raised ("none" when none).
RECURSIVE make_rest(_, _, _, _, _)
make_rest(self, block, planes, n, so_far) ==
    IF n <= 0 \/ so_far.err # "none" THEN so_far
    ELSE LET r == Block_init(block, self.inplanes, planes, 1, NoDownsample,
                             self.groups, self.base_width, self.dilation)
             call == CtorCall(block, self.groups, self.base_width, self.dilation)
         IN  make_rest(self, block, planes, n - 1,
                       [so_far EXCEPT !.err = r.err,
                                   !.calls = Append(@, call),
                                   !.layer = IF r.err = "none" THEN Append(@, r.blk) ELSE @])

\* mutant: projection only when stride and channel count both change
NeedsDownsample_and(stride, inplanes, planes, block) ==
    stride # 1 /\ inplanes # planes * Expansion(block)

NeedsDownsample(stride, inplanes, planes, block) ==
    stride # 1 \/ inplanes # planes * Expansion(block)

make_layer(self, block, planes, blocks, stride0, dilate) ==
    LET previous_dilation == self.dilation
        dilation1 == IF dilate THEN self.dilation * stride0 ELSE self.dilation
        stride == IF dilate THEN 1 ELSE stride0
        downsample ==
            IF NeedsDownsample(stride, self.inplanes, planes, block)
            THEN conv1x1_norm(self.inplanes, planes * Expansion(block), stride)
            ELSE NoDownsample
        first == Block_init(block, self.inplanes, planes, stride, downsample,
                            self.groups, self.base_width, previous_dilation)
        call1 == CtorCall(block, self.groups, self.base_width, previous_dilation)
        self1 == [self EXCEPT !.dilation = dilation1,
                              !.inplanes = planes * Expansion(block)]
        so_far1 == [self |-> self1, err |-> first.err, calls |-> <<call1>>,
                 layer |-> IF first.err = "none" THEN <<first.blk>> ELSE <<>>]
    IN  make_rest(self1, block, planes, blocks - 1, so_far1)

\* The weights a stage was initialised with: block k of stage `tag` gets the
\* weight (tag + k + seed) % ValMod
WithWeights(layer, tag, seed) ==
    [k \in 1..Len(layer) |-> [layer[k] EXCEPT !.w = (tag + k + seed) % ValMod]]

----------------------------------------------------------------------------
\* ResNet.__init__
RswdOrDefault(rswd) == IF rswd.none THEN <<FALSE, FALSE, FALSE>> ELSE rswd.val

\* for i in range(number_net): layer3_i, classifier_i
RECURSIVE make_branches(_, _, _, _, _)
make_branches(c, self, fix_planes, i, so_far) ==
    IF i >= c.number_net \/ so_far.err # "none" THEN so_far
    ELSE LET r == make_layer([self EXCEPT !.inplanes = fix_planes], c.block,
                             Layer3Planes, c.layers[3], 2, RswdOrDefault(c.rswd)[3])
         IN  make_branches(c, r.self, fix_planes, i + 1,
                [err |-> r.err,
                 calls |-> so_far.calls \o r.calls,
                 layer3 |-> IF r.err = "none"
                            THEN Append(so_far.layer3, WithWeights(r.layer, 3 + i, c.seed))
                            ELSE so_far.layer3,
                 classifier |-> IF r.err = "none"
                                THEN Append(so_far.classifier,
                                            [inf |-> Layer3Planes * Expansion(c.block),
                                             outf |-> NumClasses, id |-> i])
                                ELSE so_far.classifier])

NoNet(err, calls) ==
    [err |-> err, calls |-> calls, layer1 |-> <<>>, layer2 |-> <<>>,
     layer3 |-> <<>>, classifier |-> <<>>, number_net |-> 0, seed |-> 0,
     qk_in |-> 0, qk_out |-> 0]

ResNet_init(c) ==
    IF Len(RswdOrDefault(c.rswd)) # 3 THEN NoNet("ValueError", <<>>)
    ELSE
    LET rswd == RswdOrDefault(c.rswd)
        self0 == [inplanes |-> StemPlanes, dilation |-> 1, groups |-> c.groups,
                  base_width |-> c.width_per_group]
        l1 == make_layer(self0, c.block, Layer1Planes, c.layers[1], 1, FALSE)
    IN  IF l1.err # "none" THEN NoNet(l1.err, l1.calls)
        ELSE
        LET l2 == make_layer(l1.self, c.block, Layer2Planes, c.layers[2], 2, rswd[2])
        IN  IF l2.err # "none" THEN NoNet(l2.err, l1.calls \o l2.calls)
            ELSE
            LET br == make_branches(c, l2.self, l2.self.inplanes, 0,
                                    [err |-> "none", calls |-> l1.calls \o l2.calls,
                                     layer3 |-> <<>>, classifier |-> <<>>])
            IN  IF br.err # "none" THEN NoNet(br.err, br.calls)
                ELSE [err |-> "none", calls |-> br.calls,
                      layer1 |-> WithWeights(l1.layer, 1, c.seed),
                      layer2 |-> WithWeights(l2.layer, 2, c.seed),
                      layer3 |-> br.layer3, classifier |-> br.classifier,
                      number_net |-> c.number_net, seed |-> c.seed,
                      qk_in |-> Layer3Planes * Expansion(c.block),
                      qk_out |-> (Layer3Planes * Expansion(c.block)) \div 8]

----------------------------------------------------------------------------
\* Forward pass.  A feature map is [c, hw, v].
CeilDiv(a, b) == (a + b - 1) \div b

\* the convolution / normalisation path of a block (conv1..bn2, or conv1..bn3)
BlockTransform(b, x) ==
    [c |-> b.planes * Expansion(b.kind),
     hw |-> CeilDiv(x.hw, b.stride),
     v |-> (2 * x.v + b.w) % ValMod]

\* self.downsample(x): conv1x1 with stride, then norm
Downsample(d, x) ==
    [c |-> d.outp, hw |-> CeilDiv(x.hw, d.stride), v |-> (x.v + 1) % ValMod]

\* identity = x; if self.downsample is not None: identity = self.downsample(x)
BlockIdentity(b, x) ==
    IF b.downsample.present THEN Downsample(b.downsample, x) ELSE x

\* out += identity; out = relu(out)
Block_forward(b, x) ==
    LET out == BlockTransform(b, x)
        identity == BlockIdentity(b, x)
    IN  [out EXCEPT !.v = (out.v + identity.v) % ValMod]

\* nn.Sequential of blocks; every block's input and identity are logged
RECURSIVE Sequential_forward(_, _, _)
Sequential_forward(layer, x, trace) ==
    IF layer = <<>> THEN [x |-> x, trace |-> trace]
    ELSE Sequential_forward(Tail(layer), Block_forward(Head(layer), x),
            Append(trace, [blk |-> Head(layer), x |-> x,
                           identity |-> BlockIdentity(Head(layer), x)]))

\* conv1, bn1, relu of the stem
Stem(n, image) ==
    [c |-> StemPlanes, hw |-> image.hw, v |-> (image.v + n.seed + 1) % ValMod]

\* avgpool((1, 1)) then view(B, -1): the pooled feature of a branch
Pool(x) == x.v

\* nn.Linear(64 * expansion, num_classes) of branch cl.id
Classifier(cl, f) == [k \in Classes |-> (cl.id + k) * f + cl.id]

\* query_weight / key_weight: bias-free linear maps to one embedding dimension
query_weight(n, f) == <<f>>
key_weight(n, f) == <<IF n.seed % 2 = 0 THEN f ELSE -f>>

\* getattr(self, 'layer3_' + str(i))(input), pooled
BranchFeature(n, i, input, trace) ==
    LET r == Sequential_forward(n.layer3[i + 1], input, trace)
    IN  [f |-> Pool(r.x), trace |-> r.trace]

\* getattr(self, 'classifier_' + str(i))(feature)
BranchLogit(n, i, f) == Classifier(n.classifier[i + 1], f)

\* tensor helpers on matrices held as sequences of rows
Unsqueeze(vec) == [k \in 1..Len(vec) |-> <<vec[k]>>]
CatLast(a, b) == [k \in 1..Len(a) |-> a[k] \o b[k]]
Permute(a) ==
    IF a = <<>> THEN <<>>
    ELSE [j \in 1..Len(a[1]) |-> [i \in 1..Len(a) |-> a[i][j]]]
IntBmm(a, b) ==
    [i \in 1..Len(a) |->
        [j \in 1..Len(b[1]) |-> SeqSum([k \in 1..Len(b) |-> a[i][k] * b[k][j]])]]
RatBmm(a, b) ==
    [i \in 1..Len(a) |->
        [j \in 1..Len(b[1]) |-> RSum([k \in 1..Len(b) |-> RScale(a[i][k], b[k][j])])]]

\* F.softmax(energy, dim=-1) with energies in units of ln 2
SoftmaxRow(row) ==
    LET m == SeqMin(row)
        e == [j \in 1..Len(row) |-> Pow2(row[j] - m)]
        total == SeqSum(e)
    IN  [j \in 1..Len(row) |-> Reduce(<<e[j], total>>)]
Softmax(energy) == [i \in 1..Len(energy) |-> SoftmaxRow(energy[i])]

\* the upper end of the stacking loop: for i in range(1, LoopEnd)
LoopEnd(n) == n.number_net - 1

\* for i in range(1, self.number_net - 1): stack branch i
RECURSIVE StackLoop(_, _, _, _)
StackLoop(n, input, i, so_far) ==
    IF i >= LoopEnd(n) THEN so_far
    ELSE LET b == BranchFeature(n, i, input, so_far.trace)
             temp_1 == BranchLogit(n, i, b.f)
         IN  StackLoop(n, input, i + 1,
                [pro |-> CatLast(so_far.pro, Unsqueeze(temp_1)),
                 proj_q |-> Append(so_far.proj_q, query_weight(n, b.f)),
                 proj_k |-> Append(so_far.proj_k, key_weight(n, b.f)),
                 trace |-> b.trace])

\* mutant: the attention matrix is not transposed
Fuse_no_permute(pro, attention) == RatBmm(pro, attention)

\* x_m = torch.bmm(pro, attention.permute(0, 2, 1))
Fuse(pro, attention) == RatBmm(pro, Permute(attention))

\* ResNet._forward
forward(n, image) ==
    LET x0 == Stem(n, image)
        r1 == Sequential_forward(n.layer1, x0, <<>>)
        r2 == Sequential_forward(n.layer2, r1.x, r1.trace)
        input == r2.x
        b0 == BranchFeature(n, 0, input, r2.trace)
        x_3_1 == BranchLogit(n, 0, b0.f)
        st == StackLoop(n, input, 1,
                 [pro |-> Unsqueeze(x_3_1),
                  proj_q |-> <<query_weight(n, b0.f)>>,
                  proj_k |-> <<key_weight(n, b0.f)>>,
                  trace |-> b0.trace])
        energy == IntBmm(st.proj_q, Permute(st.proj_k))
        attention == Softmax(energy)
        x_m == Fuse(st.pro, attention)
        last == BranchFeature(n, n.number_net - 1, input, st.trace)
        temp_out == BranchLogit(n, n.number_net - 1, last.f)
    IN  [pro |-> st.pro, x_m |-> x_m, temp_out |-> temp_out,
         attention |-> attention, input |-> input, trace |-> last.trace]

NoForward ==
    [pro |-> <<>>, x_m |-> <<>>, temp_out |-> <<>>, attention |-> <<>>,
     input |-> [c |-> 0, hw |-> 0, v |-> 0], trace |-> <<>>]

----------------------------------------------------------------------------
\* Learning-rate schedule (adjust_lr).  Rates are exact rationals.
RMul(a, b) == Reduce(<<a[1] * b[1], a[2] * b[2]>>)
RSub(a, b) == RAdd(a, <<-b[1], b[2]>>)
RLeq(a, b) == a[1] * b[2] <= b[1] * a[2]

RECURSIVE RPow(_, _)
RPow(r, k) == IF k <= 0 THEN <<1, 1>> ELSE RMul(r, RPow(r, k - 1))

EtaMax == <<1, 10>>     \* eta_max=0.1
EtaMin == <<0, 1>>      \* eta_min=0.
Tenth == <<1, 10>>      \* the decay factor 0.1 of the multistep schedule

\* bisect.bisect_right(a, x) on a 1-indexed sequence
RECURSIVE bisect_loop(_, _, _, _)
bisect_loop(a, x, lo, hi) ==
    IF lo >= hi THEN lo
    ELSE LET mid == (lo + hi) \div 2
         IN  IF x < a[mid + 1] THEN bisect_loop(a, x, lo, mid)
             ELSE bisect_loop(a, x, mid + 1, hi)

\* mutant: the search of bisect_left
RECURSIVE bisect_left_loop(_, _, _, _)
bisect_left_loop(a, x, lo, hi) ==
    IF lo >= hi THEN lo
    ELSE LET mid == (lo + hi) \div 2
         IN  IF a[mid + 1] < x THEN bisect_left_loop(a, x, mid + 1, hi)
             ELSE bisect_left_loop(a, x, lo, mid)
bisect_left(a, x) == bisect_left_loop(a, x, 0, Len(a))

bisect_right(a, x) == bisect_loop(a, x, 0, Len(a))

\* int(math.log2(num / den)) for num >= den > 0: the largest i with den * 2^i <= num
RECURSIVE IntLog2(_, _, _)
IntLog2(num, den, i) ==
    IF den * Pow2(i + 1) <= num THEN IntLog2(num, den, i + 1) ELSE i

\* np.cos(np.pi * p / q) for 0 <= p <= q, by Bhaskara's rational approximation
\* cos(pi t) ~ (1 - 4 t^2) / (1 + t^2) on [0, 1/2], mirrored on [1/2, 1]; it
\* is exact at t = 0, 1/3, 1/2, 2/3, 1 and strictly decreasing, as cos(pi t) is
CosPi(p, q) ==
    IF 2 * p <= q
    THEN Reduce(<<q * q - 4 * p * p, q * q + p * p>>)
    ELSE Reduce(<<-(q * q - 4 * (q - p) * (q - p)), q * q + (q - p) * (q - p)>>)

\* mutant: the offset is taken from the end of the cycle instead of its start
sgdr_T_cur_end(ep, sgdr_t, i) == ep - sgdr_t * Pow2(i)

\* T_cur = epoch - args.sgdr_t * (2 ** (i) - 1)
sgdr_T_cur(ep, sgdr_t, i) == ep - sgdr_t * (Pow2(i) - 1)

\* the SGDR branch of adjust_lr
adjust_lr_SGDR(a, ep) ==
    LET i == IntLog2(ep + a.sgdr_t, a.sgdr_t, 0)
        T_cur == sgdr_T_cur(ep, a.sgdr_t, i)
        T_i == a.sgdr_t * Pow2(i)
        cur_lr == RAdd(EtaMin,
                       RMul(RMul(<<1, 2>>, RSub(EtaMax, EtaMin)),
                            RAdd(<<1, 1>>, CosPi(T_cur, T_i))))
    IN  [epoch |-> ep, i |-> i, T_cur |-> T_cur, T_i |-> T_i, cur_lr |-> cur_lr]

\* the multistep branch of adjust_lr
adjust_lr_multistep(a, ep) ==
    [epoch |-> ep, i |-> 0, T_cur |-> 0, T_i |-> 0,
     cur_lr |-> RMul(a.init_lr, RPow(Tenth, bisect_right(a.milestones, ep)))]

\* adjust_lr(optimizer, epoch): the locals it computed
adjust_lr(a, ep) ==
    IF a.lr_type = "SGDR" THEN adjust_lr_SGDR(a, ep)
    ELSE IF a.lr_type = "multistep" THEN adjust_lr_multistep(a, ep)
    ELSE [epoch |-> ep, i |-> 0, T_cur |-> 0, T_i |-> 0, cur_lr |-> <<0, 1>>]

\* for param_group in optimizer.param_groups: param_group['lr'] = cur_lr
set_lr(opt, cur_lr) ==
    [opt EXCEPT !.param_groups = [g \in 1..Len(opt.param_groups) |-> [lr |-> cur_lr]]]

NoSched == [epoch |-> -1, i |-> 0, T_cur |-> 0, T_i |-> 0, cur_lr |-> <<0, 1>>]

\* optim.SGD(..., lr=0.1, ...) with n parameter groups
NewOptimizer(n) == [param_groups |-> [g \in 1..n |-> [lr |-> <<1, 10>>]], steps |-> 0]

----------------------------------------------------------------------------
\* Checkpoint files and the decisions of main's epoch loop
NoFile ==
    [present |-> FALSE, net |-> 0, acc |-> 0, epoch |-> 0,
     optimizer |-> NewOptimizer(1)]

\* state = {'net': ..., 'acc': acc, 'epoch': epoch, 'optimizer': ...}; torch.save
checkpoint_state(w, a, ep, opt) ==
    [present |-> TRUE, net |-> w, acc |-> a, epoch |-> ep, optimizer |-> opt]

\* mutant: a tie with the best accuracy counts as an improvement
is_best_or_equal(best, a) == best <= a

\* if best_acc < acc: best_acc = acc; is_best = True
is_best(best, a) == best < a

\* start_epoch = checkpoint['epoch'] on --resume
resume_epoch(file) == file.epoch

\* start_epoch = checkpoint['epoch'] + 1 on --evaluate
evaluate_epoch(file) == file.epoch + 1

Max(a, b) == IF a < b THEN b ELSE a

NoHist ==
    [trained |-> [e \in 0..(MaxEpochs - 1) |-> 0], events |-> <<>>, prevBest |-> 0,
     runMax |-> 0, copied |-> FALSE, resumedFrom |-> -1, firstTrained |-> -1]

----------------------------------------------------------------------------
\* State machines.  Three specifications share the variables: SpecNet
\* (construction and forward passes of the network), SpecSched (adjust_lr on
\* its own) and SpecTrain (the runs of main_cifar_baseline.py).
RswdChoices ==
    {[none |-> TRUE, val |-> <<>>]}
    \cup {[none |-> FALSE, val |-> s] :
            s \in UNION {[1..k -> BOOLEAN] : k \in 2..3}}
    \cup {[none |-> FALSE, val |-> <<FALSE, FALSE, FALSE, FALSE>>]}

\* two weight initialisations
Seeds == {0, 1}

Configs ==
    [block : {"BasicBlock", "Bottleneck"},
     layers : {<<n, n, n>> : n \in 1..MaxBlocks},
     number_net : 2..MaxNet,
     groups : {1, 2},
     width_per_group : {DefaultBaseWidth, 2 * DefaultBaseWidth},
     rswd : RswdChoices,
     seed : Seeds]

AscendingLists ==
    {s \in UNION {[1..k -> 0..MaxSchedEpoch] : k \in 0..MaxMilestones} :
        \A a, b \in 1..Len(s) : a < b => s[a] <= s[b]}

\* the schedule's arguments; those the chosen lr_type does not read stay fixed
SchedArgs ==
    [lr_type : {"SGDR", "constant"}, milestones : {<<1, 2>>}, sgdr_t : 1..MaxT0,
     init_lr : {<<1, 10>>}, epochs : {MaxEpochs}, resume : {FALSE}]
    \cup
    [lr_type : {"multistep"}, milestones : AscendingLists, sgdr_t : {1},
     init_lr : {<<1, 10>>, <<1, 20>>}, epochs : {MaxEpochs}, resume : {FALSE}]

TrainArgs ==
    [lr_type : {"SGDR", "multistep"},
     milestones : {<<1, 2>>},
     sgdr_t : {1},
     init_lr : {<<1, 10>>},
     epochs : {MaxEpochs},
     resume : {FALSE}]

NoProbe == [called |-> FALSE, err |-> "none", layer |-> <<>>, trace |-> <<>>]

NetIdle ==
    /\ probe = NoProbe
    /\ cfg = [block |-> "BasicBlock", layers |-> <<1, 1, 1>>, number_net |-> 2,
              groups |-> 1, width_per_group |-> DefaultBaseWidth,
              rswd |-> [none |-> TRUE, val |-> <<>>], seed |-> 0]
    /\ net = NoNet("none", <<>>)
    /\ fwd = NoForward
    /\ pcN = "new"

SchedIdle ==
    /\ args \in TrainArgs
    /\ optimizer = NewOptimizer(1)
    /\ sched = NoSched

TrainIdle ==
    /\ pcT = "init"
    /\ epoch = 0
    /\ start_epoch = 0
    /\ best_acc = 0
    /\ acc = 0
    /\ weights = 0
    /\ ckptFile = NoFile
    /\ bestFile = NoFile
    /\ runs = 0
    /\ hist = NoHist

\* ---- the network
NetInit ==
    /\ cfg \in Configs
    /\ net = NoNet("none", <<>>)
    /\ fwd = NoForward
    /\ pcN = "new"
    /\ probe = NoProbe
    /\ args \in {a \in TrainArgs : a.lr_type = "SGDR"}
    /\ optimizer = NewOptimizer(1)
    /\ sched = NoSched
    /\ TrainIdle

\* model = ResNet(block, layers, **kwargs)
Construct ==
    /\ pcN = "new"
    /\ net' = ResNet_init(cfg)
    /\ pcN' = IF ResNet_init(cfg).err = "none" THEN "built" ELSE "failed"
    /\ UNCHANGED <<cfg, fwd, probe, schedVars, trainVars>>

\* y = net(x)
Forward ==
    /\ pcN \in {"built", "ran"}
    /\ \E v \in Val :
         fwd' = forward(net, [c |-> ImageChannels, hw |-> ImageSize, v |-> v])
    /\ pcN' = "ran"
    /\ UNCHANGED <<cfg, net, probe, schedVars, trainVars>>

\* self._make_layer(block, planes, blocks, stride, dilate) called on its own,
\* on a self whose inplanes the caller has set, followed by a pass through
\* the layer it returned
MakeLayerCall ==
    /\ pcN = "new"
    /\ \E inplanes \in {Layer1Planes, Layer3Planes}, planes \in {Layer1Planes, Layer2Planes},
          stride \in {1, 2}, dilate \in BOOLEAN :
        LET self == [inplanes |-> inplanes, dilation |-> 1, groups |-> cfg.groups,
                     base_width |-> cfg.width_per_group]
            r == make_layer(self, cfg.block, planes, cfg.layers[1], stride, dilate)
            layer == WithWeights(r.layer, 0, cfg.seed)
            x == [c |-> inplanes, hw |-> ImageSize, v |-> 1]
        IN  probe' = [called |-> TRUE, err |-> r.err,
                      layer |-> IF r.err = "none" THEN layer ELSE <<>>,
                      trace |-> IF r.err = "none"
                                THEN Sequential_forward(layer, x, <<>>).trace
                                ELSE <<>>]
    /\ pcN' = "probed"
    /\ UNCHANGED <<cfg, net, fwd, schedVars, trainVars>>

NetNext == Construct \/ Forward \/ MakeLayerCall

SpecNet == NetInit /\ [][NetNext]_vars

\* ---- adjust_lr on its own
SchedInit ==
    /\ NetIdle
    /\ args \in SchedArgs
    /\ optimizer \in {NewOptimizer(n) : n \in 1..MaxGroups}
    /\ sched = NoSched
    /\ TrainIdle

\* lr = adjust_lr(optimizer, epoch)
AdjustLr ==
    /\ \E ep \in 0..MaxSchedEpoch :
        /\ sched' = adjust_lr(args, ep)
        /\ optimizer' = set_lr(optimizer, adjust_lr(args, ep).cur_lr)
    /\ UNCHANGED <<args, netVars, trainVars>>

SchedNext == AdjustLr

SpecSched == SchedInit /\ [][SchedNext]_vars

\* ---- the runs of the training script
TrainInit == NetIdle /\ SchedIdle /\ TrainIdle

\* python main_cifar_baseline.py --epochs n   (first run, no checkpoint yet)
StartFresh ==
    /\ pcT = "init"
    /\ \E n \in 1..MaxEpochs :
        /\ args' = [args EXCEPT !.epochs = n, !.resume = FALSE]
        /\ pcT' = IF 0 < n THEN "train" ELSE "done"
    /\ optimizer' = NewOptimizer(1)
    /\ weights' = 0
    /\ best_acc' = 0
    /\ start_epoch' = 0
    /\ epoch' = 0
    /\ runs' = runs + 1
    /\ hist' = [hist EXCEPT !.events = <<>>, !.runMax = 0, !.copied = FALSE,
                            !.resumedFrom = -1, !.firstTrained = -1]
    /\ UNCHANGED <<netVars, sched, acc, ckptFile, bestFile>>

\* --resume with no checkpoint file: torch.load raises, the run ends
StartResumeMissing ==
    /\ pcT = "init"
    /\ ~ckptFile.present
    /\ args' = [args EXCEPT !.resume = TRUE]
    /\ pcT' = "error"
    /\ runs' = runs + 1
    /\ UNCHANGED <<netVars, optimizer, sched, epoch, start_epoch, best_acc, acc,
                   weights, ckptFile, bestFile, hist>>

\* python main_cifar_baseline.py --resume --epochs n   (a later run)
StartResume ==
    /\ pcT \in {"done", "evaluated"}
    /\ runs < MaxRuns
    /\ ckptFile.present
    /\ \E n \in 1..MaxEpochs :
        /\ args' = [args EXCEPT !.epochs = n, !.resume = TRUE]
        /\ pcT' = IF resume_epoch(ckptFile) < n THEN "train" ELSE "done"
    /\ weights' = ckptFile.net
    /\ optimizer' = ckptFile.optimizer
    /\ best_acc' = ckptFile.acc
    /\ start_epoch' = resume_epoch(ckptFile)
    /\ epoch' = resume_epoch(ckptFile)
    /\ runs' = runs + 1
    /\ hist' = [hist EXCEPT !.events = <<>>, !.runMax = ckptFile.acc,
                            !.copied = FALSE, !.resumedFrom = ckptFile.epoch,
                            !.firstTrained = -1]
    /\ UNCHANGED <<netVars, sched, acc, ckptFile, bestFile>>

\* python main_cifar_baseline.py --evaluate
StartEvaluate ==
    /\ pcT \in {"done"}
    /\ runs < MaxRuns
    /\ bestFile.present
    /\ weights' = bestFile.net
    /\ best_acc' = bestFile.acc
    /\ start_epoch' = evaluate_epoch(bestFile)
    /\ \E a \in 0..MaxAcc : acc' = a
    /\ pcT' = "evaluated"
    /\ runs' = runs + 1
    /\ UNCHANGED <<netVars, args, optimizer, sched, epoch, ckptFile, bestFile, hist>>

\* train(epoch, criterion_list, optimizer)
Train ==
    /\ pcT = "train"
    /\ sched' = adjust_lr(args, epoch)
    /\ optimizer' = [set_lr(optimizer, adjust_lr(args, epoch).cur_lr)
                        EXCEPT !.steps = @ + 1]
    /\ weights' = weights + 1
    /\ hist' = [hist EXCEPT !.trained[epoch] = @ + 1, !.events = <<"train">>,
                            !.firstTrained = IF @ = -1 THEN epoch ELSE @]
    /\ pcT' = "test"
    /\ UNCHANGED <<netVars, args, epoch, start_epoch, best_acc, acc, ckptFile,
                   bestFile, runs>>

\* acc = test(epoch, criterion_cls)
Test ==
    /\ pcT = "test"
    /\ \E a \in 0..MaxAcc :
        /\ acc' = a
        /\ hist' = [hist EXCEPT !.events = Append(@, "test"), !.runMax = Max(@, a)]
    /\ pcT' = "save"
    /\ UNCHANGED <<netVars, schedVars, epoch, start_epoch, best_acc, weights,
                   ckptFile, bestFile, runs>>

\* torch.save(state, './checkpoint/' + str(model.__name__) + '.pth.tar')
Save ==
    /\ pcT = "save"
    /\ ckptFile' = checkpoint_state(weights, acc, epoch, optimizer)
    /\ hist' = [hist EXCEPT !.events = Append(@, "save")]
    /\ pcT' = "best"
    /\ UNCHANGED <<netVars, schedVars, epoch, start_epoch, best_acc, acc, weights,
                   bestFile, runs>>

\* the is_best decision, the copy to the best path and the loop's next step
Best ==
    /\ pcT = "best"
    /\ best_acc' = IF is_best(best_acc, acc) THEN acc ELSE best_acc
    /\ bestFile' = IF is_best(best_acc, acc) THEN ckptFile ELSE bestFile
    /\ hist' = [hist EXCEPT !.prevBest = best_acc,
                            !.events = IF is_best(best_acc, acc)
                                       THEN Append(@, "copy") ELSE @,
                            !.copied = @ \/ is_best(best_acc, acc)]
    /\ IF epoch + 1 < args.epochs
       THEN epoch' = epoch + 1 /\ pcT' = "train"
       ELSE epoch' = epoch /\ pcT' = "done"
    /\ UNCHANGED <<netVars, schedVars, start_epoch, acc, weights, ckptFile, runs>>

TrainNext ==
    \/ StartFresh
    \/ StartResumeMissing
    \/ StartResume
    \/ StartEvaluate
    \/ Train
    \/ Test
    \/ Save
    \/ Best

SpecTrain == TrainInit /\ [][TrainNext]_vars

----------------------------------------------------------------------------
\* Properties of the network

NumSlices(t) == IF t = <<>> THEN 0 ELSE Len(t[1])
Slice(t, j) == [k \in 1..Len(t) |-> t[k][j]]
Built == pcN \in {"built", "ran"}
AllBlocks ==
    {probe.layer[k] : k \in 1..Len(probe.layer)}
    \cup {net.layer1[k] : k \in 1..Len(net.layer1)}
    \cup {net.layer2[k] : k \in 1..Len(net.layer2)}
    \cup UNION {{net.layer3[i][k] : k \in 1..Len(net.layer3[i])} :
                    i \in 1..Len(net.layer3)}
ShortcutCondition(b) ==
    b.stride # 1 \/ b.inplanes # b.planes * Expansion(b.kind)
\* the logits classifier_i computes from the pooled output of layer3_i
OwnLogits(i) == BranchLogit(net, i, BranchFeature(net, i, fwd.input, <<>>).f)

\* C1 (as claimed): after a forward pass of an N-branch network, pro and x_m
\* have N slices each, the attention matrix is N x N, and slice i of pro is
\* classifier_i applied to the pooled output of layer3_i, for every i in 0..N-1.
C1_StackHoldsEveryBranch ==
    pcN = "ran" =>
        /\ NumSlices(fwd.pro) = net.number_net
        /\ NumSlices(fwd.x_m) = net.number_net
        /\ Len(fwd.attention) = net.number_net
        /\ \A i \in 1..Len(fwd.attention) : Len(fwd.attention[i]) = net.number_net
        /\ \A i \in 0..(net.number_net - 1) : Slice(fwd.pro, i + 1) = OwnLogits(i)

\* C2 (as claimed): the standalone peer output equals slice N-1 of pro, and
\* that slice exists.
C2_PeerIsLastSlice ==
    pcN = "ran" =>
        /\ NumSlices(fwd.pro) >= net.number_net
        /\ Slice(fwd.pro, net.number_net) = fwd.temp_out

PassTrace == IF pcN = "probed" THEN probe.trace ELSE fwd.trace
C4_ShortcutIffStrideOrChannels ==
    /\ \A b \in AllBlocks : b.downsample.present <=> ShortcutCondition(b)
    /\ pcN = "built" => AllBlocks # {}
    /\ pcN = "ran" =>
            Len(fwd.trace) = cfg.layers[1] + cfg.layers[2] + net.number_net * cfg.layers[3]
    /\ (pcN = "probed" /\ probe.err = "none") => Len(probe.trace) = cfg.layers[1]
    /\ \A t \in 1..Len(PassTrace) :
            LET e == PassTrace[t]
            IN  /\ e.blk \in AllBlocks
                /\ ShortcutCondition(e.blk) =>
                        /\ e.blk.downsample.present
                        /\ e.identity = Downsample(e.blk.downsample, e.x)
                        /\ e.identity # e.x
                /\ ~ShortcutCondition(e.blk) => e.identity = e.x

\* C4 witness: a forward pass through a block projected for its channel count
\* alone, a block projected for its stride, and a block that adds its
\* unmodified input
C4_Witness ==
    /\ pcN = "ran"
    /\ \E t \in 1..Len(fwd.trace) :
            fwd.trace[t].blk.downsample.present /\ fwd.trace[t].blk.stride = 1
    /\ \E t \in 1..Len(fwd.trace) :
            fwd.trace[t].blk.downsample.present /\ fwd.trace[t].blk.stride # 1
    /\ \E t \in 1..Len(fwd.trace) :
            ~fwd.trace[t].blk.downsample.present /\ fwd.trace[t].identity = fwd.trace[t].x

\* a direct _make_layer(stride=2, dilate=True) call on matching channel counts
\* built a first block of stride 1 without a projection
C4_ProbeReached ==
    /\ pcN = "probed"
    /\ probe.err = "none"
    /\ Len(probe.layer) >= 2
    /\ ~probe.layer[1].downsample.present
    /\ probe.layer[2].dilation = 2

\* C8: construction raises a configuration error exactly when
\* replace_stride_with_dilation has a length other than 3, or a BasicBlock is
\* built with groups # 1, base_width # 64 or dilation > 1; a forward pass runs
\* only on a network whose construction raised nothing.
ConfigDefect ==
    \/ Len(RswdOrDefault(cfg.rswd)) # 3
    \/ cfg.block = "BasicBlock" /\ (cfg.groups # 1 \/ cfg.width_per_group # DefaultBaseWidth)
    \/ \E k \in 1..Len(net.calls) :
            net.calls[k].block = "BasicBlock" /\ net.calls[k].dilation > 1
Constructed == pcN \in {"built", "failed", "ran"}
C8_ConstructionValidation ==
    /\ Constructed => (net.err # "none" <=> ConfigDefect)
    /\ Constructed =>
            \A k \in 1..Len(net.calls) :
                /\ net.calls[k].groups = cfg.groups
                /\ net.calls[k].base_width = cfg.width_per_group
    /\ net.err # "none" => pcN = "failed" /\ fwd = NoForward
    /\ pcN = "ran" => net.err = "none"

\* C8 witness: construction of a BasicBlock network with valid groups and
\* base_width has raised on a block that was handed a dilation above 1
C8_Witness ==
    /\ pcN = "failed"
    /\ net.err = "NotImplementedError"
    /\ cfg.groups = 1 /\ cfg.width_per_group = DefaultBaseWidth
    /\ \E k \in 1..Len(net.calls) : net.calls[k].dilation > 1

----------------------------------------------------------------------------
\* Properties of the learning-rate schedule

RECURSIVE Pow10(_)
Pow10(k) == IF k <= 0 THEN 1 ELSE 10 * Pow10(k - 1)

MilestonesPassed ==
    Cardinality({m \in 1..Len(args.milestones) : args.milestones[m] <= sched.epoch})
AllGroupsSet ==
    \A g \in 1..Len(optimizer.param_groups) : optimizer.param_groups[g].lr = sched.cur_lr
CycleStart(c) == args.sgdr_t * (Pow2(c) - 1)
CycleStarts == {CycleStart(c) : c \in 0..(MaxSchedEpoch + 1)}

\* C5: with lr_type multistep, adjust_lr returns init_lr * 0.1^k, k the number
\* of milestones <= epoch, and sets it on every parameter group.
C5_MultistepRate ==
    (args.lr_type = "multistep" /\ sched.epoch >= 0) =>
        /\ sched.cur_lr =
                Reduce(<<args.init_lr[1], args.init_lr[2] * Pow10(MilestonesPassed)>>)
        /\ AllGroupsSet

\* C5 witness: adjust_lr ran at an epoch equal to a milestone, on two groups
C5_Witness ==
    /\ args.lr_type = "multistep"
    /\ sched.epoch >= 0
    /\ \E m \in 1..Len(args.milestones) : args.milestones[m] = sched.epoch
    /\ MilestonesPassed = 1
    /\ Len(args.milestones) = 2
    /\ Len(optimizer.param_groups) = 2

\* C6: with lr_type SGDR, 0 <= T_cur < T_i = T0 * 2^i and the epoch lies T_cur
\* after the start T0 * (2^i - 1) of cycle i; at a cycle start T_cur = 0 and
\* the rate is eta_max; at the last epoch of a cycle T_cur = T_i - 1 and the
\* rate is the lowest of that cycle, not below eta_min.
C6_SgdrCycle ==
    (args.lr_type = "SGDR" /\ sched.epoch >= 0) =>
        /\ sched.i >= 0
        /\ sched.T_i = args.sgdr_t * Pow2(sched.i)
        /\ 0 <= sched.T_cur /\ sched.T_cur < sched.T_i
        /\ sched.epoch = CycleStart(sched.i) + sched.T_cur
        /\ sched.epoch \in CycleStarts =>
                sched.T_cur = 0 /\ sched.cur_lr = EtaMax
        /\ (sched.epoch + 1) \in CycleStarts =>
                /\ sched.T_cur = sched.T_i - 1
                /\ RLeq(EtaMin, sched.cur_lr)
                /\ \A e \in CycleStart(sched.i)..sched.epoch :
                        RLeq(sched.cur_lr, adjust_lr(args, e).cur_lr)
        /\ AllGroupsSet

\* C6 witness: adjust_lr ran at the last epoch of a restarted cycle of length
\* above 1, where the rate is strictly below eta_max
C6_Witness ==
    /\ args.lr_type = "SGDR"
    /\ sched.epoch >= 0
    /\ sched.i >= 1
    /\ sched.T_i >= 2
    /\ (sched.epoch + 1) \in CycleStarts
    /\ sched.cur_lr # EtaMax

----------------------------------------------------------------------------
\* Properties of the training runs

\* C7 (as claimed): a --resume run restores the checkpoint's weights,
\* optimizer state and accuracy, its first trained epoch is the checkpoint's
\* epoch + 1, and no epoch index is trained more than once.
C7_ResumeContinuesAfterCheckpoint ==
    /\ (hist.resumedFrom # -1 /\ hist.firstTrained = -1 /\ pcT \in {"train", "done"}) =>
            /\ weights = ckptFile.net
            /\ optimizer = ckptFile.optimizer
            /\ best_acc = ckptFile.acc
    /\ (hist.resumedFrom # -1 /\ hist.firstTrained # -1) =>
            hist.firstTrained = hist.resumedFrom + 1
    /\ \A e \in DOMAIN hist.trained : hist.trained[e] <= 1

\* C9: an epoch runs train, test, one checkpoint write holding the epoch's
\* index and accuracy, and a copy to the best path iff the accuracy is
\* strictly above best_acc, which then takes it; after every epoch of a run
\* best_acc is the highest accuracy the run has seen (hist.runMax: the
\* accuracies it tested and the best_acc it started from, 0 or the resumed
\* checkpoint's), and once the run has copied, the best checkpoint holds
\* best_acc.
EpochSteps == <<"train", "test", "save">>
C9_EpochOrderAndBest ==
    /\ pcT = "test" => hist.events = <<"train">>
    /\ pcT = "save" => hist.events = <<"train", "test">>
    /\ pcT = "best" =>
            /\ hist.events = EpochSteps
            /\ ckptFile.present /\ ckptFile.epoch = epoch /\ ckptFile.acc = acc
    /\ (pcT \in {"train", "done"} /\ hist.events # <<>>) =>
            LET copy == hist.events = Append(EpochSteps, "copy")
            IN  /\ hist.events \in {EpochSteps, Append(EpochSteps, "copy")}
                /\ ckptFile.acc = acc
                /\ ckptFile.epoch = IF pcT = "train" THEN epoch - 1 ELSE epoch
                /\ copy <=> acc > hist.prevBest
                /\ copy => best_acc = acc /\ bestFile = ckptFile
                /\ ~copy => best_acc = hist.prevBest
                /\ best_acc = hist.runMax
    /\ (pcT \in {"train", "test", "save", "best", "done"} /\ hist.copied) =>
            bestFile.present /\ bestFile.acc = best_acc

\* C9 witness: an epoch ended without a copy because its accuracy only tied
\* a best accuracy that an earlier epoch of the same run had copied
C9_Witness ==
    /\ pcT \in {"train", "done"}
    /\ hist.events = EpochSteps
    /\ hist.copied
    /\ acc = best_acc
    /\ acc > 0

\* C10 (as claimed): the accuracy stored in the best checkpoint never
\* decreases, across epochs and --resume restarts.
C10_BestNeverDecreases ==
    [][bestFile.present => bestFile'.acc >= bestFile.acc]_vars

====
